---------------------------- MODULE Spec2Model ----------------------------
(***************************************************************************)
(* Model of the bytom node bootstrap and lifecycle (node/node.go): node    *)
(* construction (genesis bootstrap, wallet pins, the waitHandler-gated API *)
(* server), Node.OnStart / Node.OnStop, the waitHandler gate under         *)
(* concurrent requests, the wallet indexing loops that NewNode starts, and *)
(* BlockchainReactor.filterAliases on build requests.                      *)
(***************************************************************************)
EXTENDS Integers, Sequences, FiniteSets, TLC

(***************************************************************************)
(* Bounds of the model.                                                    *)
(***************************************************************************)
MaxHeight == 3
MaxRpcAddrs == 2
MaxStartCalls == 2
\* actions of one build request
MaxActions == 2
\* crashes of one indexing loop between an apply and its advance
MaxCrashes == 1
NumReqs == 4

(***************************************************************************)
(* Values.                                                                 *)
(***************************************************************************)
Nil == "nil"
NoPin == -1
\* pins := []string{account.PinName, account.DeleteSpentsPinName}
pins == <<"account", "delete_spents">>
PinNames == {pins[i] : i \in 1..Len(pins)}
\* the handler rpcInit installs (the blockchain reactor), and another handler
CoreHandler == "bcReactor"
OtherHandler == "other"
\* coreHandler.wg.Add(1)
WgInitial == 1
\* the gRPC listen address, next to the HTTP listen addresses 1..n
GrpcAddr == 0
Reqs == 1..NumReqs

VARIABLES
    \* durable state, kept across process restarts
    storeHeight,    \* store.Height() of the txdb store
    genesisAdds,    \* how many times the genesis block was appended to the store
    pinDisk,        \* pin name -> persisted pin height, or NoPin
    \* the process
    config,         \* the configuration the process was started with
    mainPc,         \* position of the main goroutine in NewNode
    pinMem,         \* the pin store's in-memory pins
    indexerRunning, \* go accounts.ProcessBlocks(ctx) was started
    reactors,       \* reactors registered with the Switch
    apiServing,     \* the gated API server: "no", "serving", "failed"
    wh_h,           \* waitHandler.h
    wh_wg,          \* waitHandler.wg counter
    \* the Node service
    nodeState,      \* "None", "Created", "Starting", "Running", "Stopping", "Stopped"
    startCalls,     \* calls of Node.Start in this process
    onStartPc,      \* index of the next OnStart step, 0 outside OnStart
    onStartLog,     \* steps the current / last OnStart call has begun, in order
    onStartErr,     \* result of the last OnStart: "none", "ok", "sw", "seeds", "rpc"
    swListeners,    \* number of peer listeners registered with the Switch
    nodeInfo,       \* NodeInfo published to the Switch, or Nil
    privKeySet,     \* SetNodePrivKey was called
    swStarted,      \* the Switch is started
    dialResult,     \* outcome of DialSeeds in the current / last OnStart
    opened,         \* RPC listen addresses this process is listening on
    rpcListeners,   \* n.rpcListeners
    onStopPc,       \* position in OnStop: "idle", "sw_stop", "close", "done"
    \* requests to the gated API server, and a second caller of Set
    reqPc,          \* request -> "idle", "wait", "fwd", "done"
    reqSaw,         \* request -> the handler it was forwarded to
    reqHeld,        \* request -> it arrived before Set had released the gate
    setPc,          \* the second caller of Set: "idle", "store", "done", "returned"
    panicked,       \* the process panicked
    \* the wallet: durable wallet state and the indexer goroutine (ProcessBlocks)
    walletApplied,  \* pin name -> block height -> effect of the block in wallet state
    pinInit,        \* pin name -> the height the pin was created at, or NoPin
    applyCount,     \* pin name -> block applications made by the pin's loop
    crashCount,     \* pin name -> process exits between an apply and its advance
    idxPc,          \* pin name -> "idle", "applied" (block applied, pin not advanced)
    \* more of the process
    loadResult,     \* outcome of pinStore.LoadAll: "none", "ok", "failed"
    closeIdx,       \* OnStop: index in n.rpcListeners of the next listener to close
    closeTried,     \* OnStop: the listeners Close was called on
    \* a build request handed to BlockchainReactor.filterAliases
    brInput,        \* br.Actions as the request arrived
    brActions,      \* br.Actions: a sequence of action maps
    brErr,          \* the returned error, or NoErr
    aliasPc,        \* "call", "returned"
    lookups         \* the FindByAlias calls made: <<kind, action index, alias>>

durableVars == <<storeHeight, genesisAdds, pinDisk>>
procVars == <<config, mainPc, pinMem, indexerRunning, reactors, apiServing>>
gateVars == <<wh_h, wh_wg>>
nodeVars == <<nodeState, startCalls, onStartPc, onStartLog, onStartErr, swListeners,
              nodeInfo, privKeySet, swStarted, dialResult, opened, rpcListeners, onStopPc>>
reqVars == <<reqPc, reqSaw, reqHeld, setPc, panicked>>
walletVars == <<walletApplied, pinInit, applyCount, crashCount>>
memVars == <<idxPc, loadResult, closeIdx, closeTried>>
aliasVars == <<brInput, brActions, brErr, aliasPc, lookups>>
otherVars == <<walletVars, memVars, aliasVars>>
vars == <<durableVars, procVars, gateVars, nodeVars, reqVars, otherVars>>

Configs == [wallet : BOOLEAN, pex : BOOLEAN, seeds : BOOLEAN,
            rpcAddrs : 0..MaxRpcAddrs, grpc : BOOLEAN]
NoConfig == [wallet |-> FALSE, pex |-> FALSE, seeds |-> FALSE, rpcAddrs |-> 0, grpc |-> FALSE]
NoPins == [p \in PinNames |-> NoPin]
\* wallet state no block was applied to
NoWallet == [p \in PinNames |-> [h \in 1..MaxHeight |-> 0]]
\* filterAliases returned nil
NoErr == <<"nil">>

Min(S) == CHOOSE x \in S : \A y \in S : x <= y
Range(s) == {s[i] : i \in 1..Len(s)}


(***************************************************************************)
(* Initial state: no process, an empty store, no persisted pin.            *)
(***************************************************************************)
Init ==
    /\ storeHeight = 0
    /\ genesisAdds = 0
    /\ pinDisk = NoPins
    /\ config = NoConfig
    /\ mainPc = "down"
    /\ pinMem = NoPins
    /\ indexerRunning = FALSE
    /\ reactors = {}
    /\ apiServing = "no"
    /\ wh_h = Nil
    /\ wh_wg = 0
    /\ nodeState = "None"
    /\ startCalls = 0
    /\ onStartPc = 0
    /\ onStartLog = <<>>
    /\ onStartErr = "none"
    /\ swListeners = 0
    /\ nodeInfo = Nil
    /\ privKeySet = FALSE
    /\ swStarted = FALSE
    /\ dialResult = "none"
    /\ opened = {}
    /\ rpcListeners = <<>>
    /\ onStopPc = "idle"
    /\ reqPc = [r \in Reqs |-> "idle"]
    /\ reqSaw = [r \in Reqs |-> Nil]
    /\ reqHeld = [r \in Reqs |-> FALSE]
    /\ setPc = "idle"
    /\ panicked = FALSE
    /\ walletApplied = NoWallet
    /\ applyCount = [p \in PinNames |-> 0]
    /\ crashCount = [p \in PinNames |-> 0]
    /\ pinInit = NoPins
    /\ idxPc = [p \in PinNames |-> "idle"]
    /\ loadResult = "none"
    /\ closeIdx = 0
    /\ closeTried = {}
    /\ brInput = <<>>
    /\ brActions = <<>>
    /\ brErr = NoErr
    /\ aliasPc = "returned"
    /\ lookups = {}

\* The process is gone: its memory is lost and the OS closes its listeners.
ProcGone ==
    /\ config' = NoConfig
    /\ mainPc' = "down"
    /\ pinMem' = NoPins
    /\ indexerRunning' = FALSE
    /\ reactors' = {}
    /\ apiServing' = "no"
    /\ wh_h' = Nil
    /\ wh_wg' = 0
    /\ nodeState' = "None"
    /\ startCalls' = 0
    /\ onStartPc' = 0
    /\ onStartLog' = <<>>
    /\ onStartErr' = "none"
    /\ swListeners' = 0
    /\ nodeInfo' = Nil
    /\ privKeySet' = FALSE
    /\ swStarted' = FALSE
    /\ dialResult' = "none"
    /\ opened' = {}
    /\ rpcListeners' = <<>>
    /\ onStopPc' = "idle"
    /\ idxPc' = [p \in PinNames |-> "idle"]
    /\ loadResult' = "none"
    /\ closeIdx' = 0
    /\ closeTried' = {}
    \* an exit between "apply" and "advance" of an indexing loop is a crash of it
    /\ \A p \in PinNames : idxPc[p] = "applied" => crashCount[p] < MaxCrashes
    /\ crashCount' = [p \in PinNames |->
                        IF idxPc[p] = "applied" THEN crashCount[p] + 1 ELSE crashCount[p]]
    /\ UNCHANGED <<reqVars, walletApplied, applyCount, aliasVars>>

\* The process is started with some configuration and enters NewNode.
ProcessStartWith(c) ==
    /\ mainPc = "down"
    /\ config' = c
    /\ mainPc' = "genesis"
    /\ UNCHANGED <<durableVars, pinMem, indexerRunning, reactors, apiServing,
                   gateVars, nodeVars, reqVars, otherVars>>

ProcessStart == \E c \in Configs : ProcessStartWith(c)

\* The process ends (killed, or its caller exits) at any point.
ProcessExit ==
    /\ mainPc # "down"
    /\ ProcGone
    /\ UNCHANGED <<durableVars, pinInit>>

(***************************************************************************)
(* NewNode: genesis bootstrap.                                             *)
(***************************************************************************)
NeedsGenesisLe(height) == height <= 1

NeedsGenesisNever(height) == FALSE

\* if store.Height() < 1
NeedsGenesis(height) == height < 1

\* chain.AddBlock(nil, genesisBlock): the block is appended to the store
AddBlock(height) == height + 1

NewNode_Genesis ==
    /\ mainPc = "genesis"
    /\ IF NeedsGenesis(storeHeight)
       THEN \E ok \in BOOLEAN :
              IF ok
              THEN /\ storeHeight' = AddBlock(storeHeight)
                   /\ genesisAdds' = genesisAdds + 1
                   /\ mainPc' = IF config.wallet THEN "load_pins" ELSE "reactor"
                   /\ UNCHANGED <<pinDisk, config, pinMem, indexerRunning, reactors,
                                  apiServing, gateVars, nodeVars, reqVars, otherVars>>
              ELSE \* cmn.Exit("Failed to add genesisBlock to Chain")
                   /\ ProcGone
                   /\ UNCHANGED <<durableVars, pinInit>>
       ELSE /\ mainPc' = IF config.wallet THEN "load_pins" ELSE "reactor"
            /\ UNCHANGED <<durableVars, config, pinMem, indexerRunning, reactors,
                           apiServing, gateVars, nodeVars, reqVars, otherVars>>

(***************************************************************************)
(* NewNode: wallet pins (config.Wallet.Enable).                            *)
(***************************************************************************)
\* pinStore.LoadAll(ctx): every persisted pin is loaded into memory
LoadAll(disk) == disk

LoadAllErrIgnored(ok) == FALSE

\* if err != nil { bytomlog.Error(ctx, err); return nil }
LoadAllAborts(ok) == ~ok

NewNode_LoadAll ==
    /\ mainPc = "load_pins"
    /\ \E ok \in BOOLEAN :
         /\ loadResult' = IF ok THEN "ok" ELSE "failed"
         /\ pinMem' = IF ok THEN LoadAll(pinDisk) ELSE pinMem
         /\ mainPc' = IF LoadAllAborts(ok) THEN "nil" ELSE "create_pins"
    /\ UNCHANGED <<durableVars, config, indexerRunning, reactors, apiServing,
                   gateVars, nodeVars, reqVars, walletVars, aliasVars, idxPc, closeIdx,
                   closeTried>>

pinHeightTip(height) == height

\* pinHeight := store.Height(); if pinHeight > 0 { pinHeight = pinHeight - 1 }
pinHeight(height) == IF height > 0 THEN height - 1 ELSE height

\* pinStore.CreatePin(ctx, name, height): a no-op when the pin exists
CreatePin(mem, name, height) ==
    IF mem[name] # NoPin THEN mem ELSE [mem EXCEPT ![name] = height]

NewNodePinsReset(mem, height, k) ==
    [p \in PinNames |-> IF \E i \in 1..k : pins[i] = p THEN pinHeight(height) ELSE mem[p]]

\* for _, p := range pins { err = pinStore.CreatePin(ctx, p, pinHeight) }: the pins
\* in memory after the first k calls
RECURSIVE NewNodePins(_, _, _)
NewNodePins(mem, height, k) ==
    IF k = 0 THEN mem
    ELSE CreatePin(NewNodePins(mem, height, k - 1), pins[k], pinHeight(height))

NewNode_CreatePins ==
    /\ mainPc = "create_pins"
    /\ \E k \in 0..Len(pins) :
         \* a call that finds its pin is a no-op and cannot fail
         /\ k < Len(pins) => NewNodePins(pinMem, storeHeight, k)[pins[k + 1]] = NoPin
         /\ LET mem == NewNodePins(pinMem, storeHeight, k)
                disk == [p \in PinNames |->
                            IF mem[p] # pinMem[p] THEN mem[p] ELSE pinDisk[p]]
            IN /\ pinDisk' = disk
               /\ pinInit' = [p \in PinNames |->
                                IF pinInit[p] = NoPin THEN disk[p] ELSE pinInit[p]]
               /\ IF k = Len(pins)
                  THEN \* accounts = account.NewManager(...); go accounts.ProcessBlocks(ctx)
                       /\ pinMem' = mem
                       /\ indexerRunning' = TRUE
                       /\ mainPc' = "reactor"
                       /\ UNCHANGED <<storeHeight, genesisAdds, config, reactors,
                                      apiServing, gateVars, nodeVars, reqVars,
                                      walletApplied, applyCount, crashCount, memVars,
                                      aliasVars>>
                  ELSE \* CreatePin number k+1 failed: bytomlog.Fatalkv
                       /\ ProcGone
                       /\ UNCHANGED <<storeHeight, genesisAdds>>

(***************************************************************************)
(* NewNode: HSM, blockchain reactor, rpcInit, PEX reactor.                 *)
(***************************************************************************)
NewNode_Reactor ==
    /\ mainPc = "reactor"
    /\ \E ok \in BOOLEAN :
         IF ok
         THEN \* sw.AddReactor("BLOCKCHAIN", bcReactor)
              /\ reactors' = reactors \cup {"BLOCKCHAIN"}
              /\ mainPc' = "rpc_open"
              /\ UNCHANGED <<durableVars, config, pinMem, indexerRunning, apiServing,
                             gateVars, nodeVars, reqVars, otherVars>>
         ELSE \* cmn.Exit("initialize HSM failed")
              /\ ProcGone
              /\ UNCHANGED <<durableVars, pinInit>>

\* coreHandler.wg.Add(1); ...; listener, _ := net.Listen(...); go server.Serve(listener)
rpcInit_Open ==
    /\ mainPc = "rpc_open"
    /\ ~panicked
    /\ wh_wg' = wh_wg + WgInitial
    /\ \E ok \in BOOLEAN : apiServing' = IF ok THEN "serving" ELSE "failed"
    /\ mainPc' = "set_h"
    /\ UNCHANGED <<durableVars, config, pinMem, indexerRunning, reactors, wh_h,
                   nodeVars, reqVars, otherVars>>

\* server.Serve returned (the listener is nil): bytomlog.Fatalkv
ServeFatal ==
    /\ apiServing = "failed"
    /\ ProcGone
    /\ UNCHANGED <<durableVars, pinInit>>

WgDoneOmitted(c) == c

\* wg.Done(): the counter after the call
WgDone(c) == c - 1

\* coreHandler.Set(h), first statement: wh.h = h
rpcInit_Set_h ==
    /\ mainPc = "set_h"
    /\ ~panicked
    /\ wh_h' = CoreHandler
    /\ mainPc' = "set_done"
    /\ UNCHANGED <<durableVars, config, pinMem, indexerRunning, reactors, apiServing,
                   wh_wg, nodeVars, reqVars, otherVars>>

\* coreHandler.Set(h), second statement: wh.wg.Done(), which panics on a
\* negative counter
rpcInit_Set_done ==
    /\ mainPc = "set_done"
    /\ ~panicked
    /\ IF WgDone(wh_wg) < 0
       THEN /\ panicked' = TRUE
            /\ UNCHANGED <<wh_wg, mainPc>>
       ELSE /\ wh_wg' = WgDone(wh_wg)
            /\ mainPc' = "pex"
            /\ UNCHANGED panicked
    /\ UNCHANGED <<durableVars, config, pinMem, indexerRunning, reactors, apiServing,
                   wh_h, nodeVars, reqPc, reqSaw, reqHeld, setPc, otherVars>>

\* if config.P2P.PexReactor { sw.AddReactor("PEX", pexReactor) }; return node
NewNode_Pex ==
    /\ mainPc = "pex"
    /\ reactors' = IF config.pex THEN reactors \cup {"PEX"} ELSE reactors
    /\ mainPc' = "node"
    /\ nodeState' = "Created"
    /\ UNCHANGED <<durableVars, config, pinMem, indexerRunning, apiServing, gateVars,
                   startCalls, onStartPc, onStartLog, onStartErr, swListeners, nodeInfo,
                   privKeySet, swStarted, dialResult, opened, rpcListeners, onStopPc,
                   reqVars, otherVars>>

(***************************************************************************)
(* Node.Start / Node.OnStart.                                              *)
(***************************************************************************)
OnStartOrderSwitchFirst ==
    <<"AddListener", "SwStart", "SetNodeInfo", "SetNodePrivKey", "DialSeeds", "startRPC">>

\* The statements of OnStart, in program order.
OnStartOrder ==
    <<"AddListener", "SetNodeInfo", "SetNodePrivKey", "SwStart", "DialSeeds", "startRPC">>

AtStep(name) ==
    /\ nodeState = "Starting"
    /\ onStartPc \in 1..Len(OnStartOrder)
    /\ OnStartOrder[onStartPc] = name
    /\ ~panicked

\* BaseService.Start: the service leaves Created and OnStart runs
StartCall ==
    /\ mainPc = "node"
    /\ nodeState = "Created"
    /\ startCalls < MaxStartCalls
    /\ startCalls' = startCalls + 1
    /\ nodeState' = "Starting"
    /\ onStartPc' = 1
    /\ onStartLog' = <<>>
    /\ onStartErr' = "none"
    /\ dialResult' = "none"
    /\ UNCHANGED <<durableVars, procVars, gateVars, swListeners, nodeInfo, privKeySet,
                   swStarted, opened, rpcListeners, onStopPc, reqVars, otherVars>>

\* OnStart returns err: BaseService.Start reverts the service to not started
ReturnErr(err) ==
    /\ onStartErr' = err
    /\ onStartPc' = 0
    /\ nodeState' = "Created"

\* the step is done and OnStart goes on to its next statement, or returns nil
StepDone ==
    IF onStartPc < Len(OnStartOrder)
    THEN /\ onStartPc' = onStartPc + 1
         /\ UNCHANGED <<onStartErr, nodeState>>
    ELSE /\ onStartPc' = 0
         /\ onStartErr' = "ok"
         /\ nodeState' = "Running"

\* l := p2p.NewDefaultListener(...); n.sw.AddListener(l)
OnStart_AddListener ==
    /\ AtStep("AddListener")
    /\ onStartLog' = Append(onStartLog, "AddListener")
    /\ swListeners' = swListeners + 1
    /\ StepDone
    /\ UNCHANGED <<durableVars, procVars, gateVars, startCalls, nodeInfo, privKeySet,
                   swStarted, dialResult, opened, rpcListeners, onStopPc, reqVars, otherVars>>

\* makeNodeInfo: if !n.sw.IsListening() { return nodeInfo }; ListenAddr = ...
makeNodeInfoNoAddr(listeners) == "NodeInfo"

\* the NodeInfo carries ListenAddr and rpc_addr only if a listener is registered
makeNodeInfo(listeners) == IF listeners > 0 THEN "NodeInfo+ListenAddr" ELSE "NodeInfo"

\* n.sw.SetNodeInfo(n.makeNodeInfo())
OnStart_SetNodeInfo ==
    /\ AtStep("SetNodeInfo")
    /\ onStartLog' = Append(onStartLog, "SetNodeInfo")
    /\ nodeInfo' = makeNodeInfo(swListeners)
    /\ StepDone
    /\ UNCHANGED <<durableVars, procVars, gateVars, startCalls, swListeners, privKeySet,
                   swStarted, dialResult, opened, rpcListeners, onStopPc, reqVars, otherVars>>

\* n.sw.SetNodePrivKey(n.privKey)
OnStart_SetNodePrivKey ==
    /\ AtStep("SetNodePrivKey")
    /\ onStartLog' = Append(onStartLog, "SetNodePrivKey")
    /\ privKeySet' = TRUE
    /\ StepDone
    /\ UNCHANGED <<durableVars, procVars, gateVars, startCalls, swListeners, nodeInfo,
                   swStarted, dialResult, opened, rpcListeners, onStopPc, reqVars, otherVars>>

SwStartErrIgnored(ok) == FALSE

\* _, err := n.sw.Start(); if err != nil { return err }
SwStartAborts(ok) == ~ok

\* n.sw.Start(): a Switch that is already started returns no error
OnStart_SwStart ==
    /\ AtStep("SwStart")
    /\ onStartLog' = Append(onStartLog, "SwStart")
    /\ \E ok \in BOOLEAN :
         /\ swStarted => ok
         /\ swStarted' = (swStarted \/ ok)
         /\ IF SwStartAborts(ok) THEN ReturnErr("sw") ELSE StepDone
    /\ UNCHANGED <<durableVars, procVars, gateVars, startCalls, swListeners, nodeInfo,
                   privKeySet, dialResult, opened, rpcListeners, onStopPc, reqVars, otherVars>>

SeedErrIgnored(ok) == FALSE

\* if err := n.DialSeeds(seeds); err != nil { return err }
SeedErrAborts(ok) == ~ok

\* if n.config.P2P.Seeds != "" { ... n.DialSeeds(seeds) ... }
OnStart_DialSeeds ==
    /\ AtStep("DialSeeds")
    /\ IF config.seeds
       THEN /\ onStartLog' = Append(onStartLog, "DialSeeds")
            /\ \E ok \in BOOLEAN :
                 /\ dialResult' = IF ok THEN "ok" ELSE "failed"
                 /\ IF SeedErrAborts(ok) THEN ReturnErr("seeds") ELSE StepDone
       ELSE /\ StepDone
            /\ UNCHANGED <<onStartLog, dialResult>>
    /\ UNCHANGED <<durableVars, procVars, gateVars, startCalls, swListeners, nodeInfo,
                   privKeySet, swStarted, opened, rpcListeners, onStopPc, reqVars, otherVars>>

\* Node.startRPC: n HTTP listen addresses 1..n are bound in order, then the gRPC
\* address if configured; `free` are the addresses that can be bound.  The result
\* is the returned listeners, the error, and the addresses left listening.
startRPC(n, grpc, free) ==
    LET failing == {i \in 1..n : i \notin free}
        k == IF failing = {} THEN n + 1 ELSE Min(failing)
        http == [i \in 1..n |-> i]
    IN IF k <= n
       THEN [listeners |-> <<>>, err |-> TRUE, opened |-> 1..(k - 1)]
       ELSE IF grpc
            THEN IF GrpcAddr \in free
                 THEN [listeners |-> Append(http, GrpcAddr), err |-> FALSE,
                       opened |-> (1..n) \cup {GrpcAddr}]
                 ELSE [listeners |-> <<>>, err |-> TRUE, opened |-> 1..n]
            ELSE [listeners |-> http, err |-> FALSE, opened |-> 1..n]

\* if n.config.RPC.ListenAddress != "" { listeners, err := n.startRPC(); ... }
OnStart_startRPC ==
    /\ AtStep("startRPC")
    /\ IF config.rpcAddrs > 0
       THEN /\ onStartLog' = Append(onStartLog, "startRPC")
            /\ \E free \in SUBSET ((0..config.rpcAddrs) \ opened) :
                 LET r == startRPC(config.rpcAddrs, config.grpc, free)
                 IN /\ opened' = opened \cup r.opened
                    /\ IF r.err
                       THEN /\ ReturnErr("rpc")
                            /\ UNCHANGED rpcListeners
                       ELSE /\ rpcListeners' = r.listeners
                            /\ StepDone
       ELSE /\ StepDone
            /\ UNCHANGED <<onStartLog, opened, rpcListeners>>
    /\ UNCHANGED <<durableVars, procVars, gateVars, startCalls, swListeners, nodeInfo,
                   privKeySet, swStarted, dialResult, onStopPc, reqVars, otherVars>>

(***************************************************************************)
(* Node.Stop / Node.OnStop.                                                *)
(***************************************************************************)
\* BaseService.Stop on a running node; n.BaseService.OnStop(); n.sw.Stop()
OnStop_SwStop ==
    /\ mainPc = "node"
    /\ nodeState = "Running"
    /\ ~panicked
    /\ nodeState' = "Stopping"
    /\ swStarted' = FALSE
    /\ onStopPc' = "close"
    /\ UNCHANGED <<durableVars, procVars, gateVars, startCalls, onStartPc, onStartLog,
                   onStartErr, swListeners, nodeInfo, privKeySet, dialResult, opened,
                   rpcListeners, reqVars, otherVars>>

\* a Close error that ended the loop (the code has no such branch)
CloseStopsOnErr(err) == ~err

\* if err := l.Close(); err != nil { n.Logger.Error(...) }: the loop goes on
CloseContinues(err) == TRUE

\* one iteration of: for _, l := range n.rpcListeners { l.Close() }
OnStop_Close ==
    /\ nodeState = "Stopping"
    /\ onStopPc = "close"
    /\ closeIdx < Len(rpcListeners)
    /\ \E err \in BOOLEAN :
         /\ opened' = IF err THEN opened ELSE opened \ {rpcListeners[closeIdx + 1]}
         /\ closeIdx' = IF CloseContinues(err) THEN closeIdx + 1 ELSE Len(rpcListeners)
    /\ closeTried' = closeTried \cup {rpcListeners[closeIdx + 1]}
    /\ UNCHANGED <<durableVars, procVars, gateVars, nodeState, startCalls, onStartPc,
                   onStartLog, onStartErr, swListeners, nodeInfo, privKeySet, swStarted,
                   dialResult, rpcListeners, onStopPc, reqVars, walletVars, aliasVars,
                   idxPc, loadResult>>

\* the range loop is over: OnStop returns and BaseService.Stop with it
OnStop_Return ==
    /\ nodeState = "Stopping"
    /\ onStopPc = "close"
    /\ closeIdx >= Len(rpcListeners)
    /\ onStopPc' = "done"
    /\ nodeState' = "Stopped"
    /\ UNCHANGED <<durableVars, procVars, gateVars, startCalls, onStartPc, onStartLog,
                   onStartErr, swListeners, nodeInfo, privKeySet, swStarted, dialResult,
                   opened, rpcListeners, reqVars, otherVars>>

(***************************************************************************)
(* The chain while the Switch runs: the blockchain reactor commits blocks. *)
(***************************************************************************)
ChainGrow ==
    /\ swStarted
    /\ storeHeight < MaxHeight
    /\ storeHeight' = storeHeight + 1
    /\ UNCHANGED <<genesisAdds, pinDisk, procVars, gateVars, nodeVars, reqVars, otherVars>>

(***************************************************************************)
(* accounts.ProcessBlocks: the indexing loop of each pin.                  *)
(***************************************************************************)
ApplyAccumulates(state, h) == [state EXCEPT ![h] = @ + 1]

\* applying block h to wallet state; applying it again changes nothing
Apply(state, h) == [state EXCEPT ![h] = 1]

AdvancePinSkip(height) == height + 2

\* the pin moves to the block that was applied
AdvancePin(height) == height + 1

\* read the pin, fetch block pin+1 (the loop is suspended while there is none),
\* apply it to wallet state
Indexer_Apply(p) ==
    /\ indexerRunning
    /\ idxPc[p] = "idle"
    /\ pinMem[p] < storeHeight
    /\ walletApplied' = [walletApplied EXCEPT ![p] = Apply(@, pinMem[p] + 1)]
    /\ applyCount' = [applyCount EXCEPT ![p] = @ + 1]
    /\ idxPc' = [idxPc EXCEPT ![p] = "applied"]
    /\ UNCHANGED <<durableVars, procVars, gateVars, nodeVars, reqVars, pinInit,
                   crashCount, loadResult, closeIdx, closeTried, aliasVars>>

\* the application succeeded: advance the pin and persist it
Indexer_Advance(p) ==
    /\ indexerRunning
    /\ idxPc[p] = "applied"
    /\ pinMem' = [pinMem EXCEPT ![p] = AdvancePin(@)]
    /\ pinDisk' = [pinDisk EXCEPT ![p] = pinMem'[p]]
    /\ idxPc' = [idxPc EXCEPT ![p] = "idle"]
    /\ UNCHANGED <<storeHeight, genesisAdds, config, mainPc, indexerRunning, reactors,
                   apiServing, gateVars, nodeVars, reqVars, walletApplied, pinInit,
                   applyCount, crashCount, loadResult, closeIdx, closeTried, aliasVars>>

(***************************************************************************)
(* BlockchainReactor.filterAliases on a build request.                     *)
(***************************************************************************)
\* an action map m: the value of a key is "" when the key is absent or not a string
Ids == {"", "id0"}
Aliases == {"", "known", "unknown"}
ActionMaps == [asset_id : Ids, assset_id : Ids, asset_alias : Aliases,
               account_id : Ids, account_alias : Aliases]

\* a.assets.FindByAlias / a.accounts.FindByAlias: err == nil
FindByAliasOk(alias) == alias = "known"

\* asset.AssetID / acc.ID of the object found
FindByAlias(alias) == "resolved"

\* id, _ := m["assset_id"].(string)
AssetIdRead(m) == m.assset_id

\* id, _ = m["account_id"].(string)
AccountIdRead(m) == m.account_id

\* errors.WithDetailf(err, "invalid ... alias %s on action %d", alias, i)
AliasErr(kind, alias, i) == <<kind, alias, i>>

\* the loop from its iteration on actions[k] (index k - 1 in the code) on; the
\* maps are references, so a write to m is a write to br.Actions
RECURSIVE filterAliasesFrom(_, _, _)
filterAliasesFrom(actions, k, looked) ==
    IF k > Len(actions)
    THEN [actions |-> actions, err |-> NoErr, lookups |-> looked]
    ELSE LET m == actions[k]
             needAsset == AssetIdRead(m) = "" /\ m.asset_alias # ""
             looked1 == IF needAsset
                        THEN looked \cup {<<"asset", k - 1, m.asset_alias>>}
                        ELSE looked
         IN IF needAsset /\ ~FindByAliasOk(m.asset_alias)
            THEN [actions |-> actions, err |-> AliasErr("asset", m.asset_alias, k - 1),
                  lookups |-> looked1]
            ELSE LET m1 == IF needAsset
                           THEN [m EXCEPT !.asset_id = FindByAlias(m.asset_alias)]
                           ELSE m
                     actions1 == [actions EXCEPT ![k] = m1]
                     needAccount == AccountIdRead(m1) = "" /\ m1.account_alias # ""
                     looked2 == IF needAccount
                                THEN looked1 \cup {<<"account", k - 1, m1.account_alias>>}
                                ELSE looked1
                 IN IF needAccount /\ ~FindByAliasOk(m1.account_alias)
                    THEN [actions |-> actions1,
                          err |-> AliasErr("account", m1.account_alias, k - 1),
                          lookups |-> looked2]
                    ELSE LET m2 == IF needAccount
                                   THEN [m1 EXCEPT !.account_id =
                                                        FindByAlias(m1.account_alias)]
                                   ELSE m1
                         IN filterAliasesFrom([actions EXCEPT ![k] = m2], k + 1, looked2)

filterAliases(actions) == filterAliasesFrom(actions, 1, {})

filterAliases_Call ==
    /\ aliasPc = "call"
    /\ LET out == filterAliases(brActions)
       IN /\ brActions' = out.actions
          /\ brErr' = out.err
          /\ lookups' = out.lookups
    /\ aliasPc' = "returned"
    /\ UNCHANGED <<durableVars, procVars, gateVars, nodeVars, reqVars, walletVars,
                   memVars, brInput>>

(***************************************************************************)
(* waitHandler.ServeHTTP, one goroutine per request of the API server.     *)
(***************************************************************************)
\* the server accepted a request and calls coreHandler.ServeHTTP: wh.wg.Wait() begins
ServeHTTP_Arrive(r) ==
    /\ apiServing = "serving"
    /\ ~panicked
    /\ reqPc[r] = "idle"
    /\ reqPc' = [reqPc EXCEPT ![r] = "wait"]
    /\ reqHeld' = [reqHeld EXCEPT ![r] = (wh_wg # 0)]
    /\ UNCHANGED <<durableVars, procVars, gateVars, nodeVars, reqSaw, setPc, panicked,
                   otherVars>>

WaitReadyAlways(c) == TRUE

\* wg.Wait() returns when the counter is zero
WaitReady(c) == c = 0

ServeHTTP_Wait(r) ==
    /\ ~panicked
    /\ reqPc[r] = "wait"
    /\ WaitReady(wh_wg)
    /\ reqPc' = [reqPc EXCEPT ![r] = "fwd"]
    /\ UNCHANGED <<durableVars, procVars, gateVars, nodeVars, reqSaw, reqHeld, setPc,
                   panicked, otherVars>>

\* wh.h.ServeHTTP(w, req): the request is forwarded to the handler read from wh.h
\* (a nil handler fails the request with a nil dereference)
ServeHTTP_Forward(r) ==
    /\ ~panicked
    /\ reqPc[r] = "fwd"
    /\ reqSaw' = [reqSaw EXCEPT ![r] = wh_h]
    /\ reqPc' = [reqPc EXCEPT ![r] = "done"]
    /\ UNCHANGED <<durableVars, procVars, gateVars, nodeVars, reqHeld, setPc, panicked,
                   otherVars>>

(***************************************************************************)
(* A second call of waitHandler.Set, after rpcInit's call has returned.    *)
(***************************************************************************)
\* wh.h = h
SetAgain_h ==
    /\ mainPc = "pex"
    /\ ~panicked
    /\ setPc = "idle"
    /\ \E h \in {CoreHandler, OtherHandler} : wh_h' = h
    /\ setPc' = "done"
    /\ UNCHANGED <<durableVars, procVars, wh_wg, nodeVars, reqPc, reqSaw, reqHeld,
                   panicked, otherVars>>

\* wh.wg.Done(): panics on a negative counter
SetAgain_done ==
    /\ ~panicked
    /\ setPc = "done"
    /\ IF WgDone(wh_wg) < 0
       THEN /\ panicked' = TRUE
            /\ UNCHANGED <<wh_wg, setPc>>
       ELSE /\ wh_wg' = WgDone(wh_wg)
            /\ setPc' = "returned"
            /\ UNCHANGED panicked
    /\ UNCHANGED <<durableVars, procVars, wh_h, nodeVars, reqPc, reqSaw, reqHeld,
                   otherVars>>

(***************************************************************************)
(* Specifications.                                                         *)
(***************************************************************************)
\* The node process: construction, start, stop, restarts.
Next ==
    \/ ProcessStart
    \/ ProcessExit
    \/ NewNode_Genesis
    \/ NewNode_LoadAll
    \/ NewNode_CreatePins
    \/ NewNode_Reactor
    \/ rpcInit_Open
    \/ ServeFatal
    \/ rpcInit_Set_h
    \/ rpcInit_Set_done
    \/ NewNode_Pex
    \/ StartCall
    \/ OnStart_AddListener
    \/ OnStart_SetNodeInfo
    \/ OnStart_SetNodePrivKey
    \/ OnStart_SwStart
    \/ OnStart_DialSeeds
    \/ OnStart_startRPC
    \/ OnStop_SwStop
    \/ OnStop_Close
    \/ OnStop_Return
    \/ ChainGrow

Spec == Init /\ [][Next]_vars

(***************************************************************************)
(* The node with the wallet enabled and its indexing loops: the node       *)
(* process of Spec under one configuration, together with ProcessBlocks.   *)
(***************************************************************************)
WalletConfig == [wallet |-> TRUE, pex |-> FALSE, seeds |-> FALSE, rpcAddrs |-> 1,
                 grpc |-> FALSE]

WalletNext ==
    \/ ProcessStartWith(WalletConfig)
    \/ ProcessExit
    \/ NewNode_Genesis
    \/ NewNode_LoadAll
    \/ NewNode_CreatePins
    \/ NewNode_Reactor
    \/ rpcInit_Open
    \/ ServeFatal
    \/ rpcInit_Set_h
    \/ rpcInit_Set_done
    \/ NewNode_Pex
    \/ StartCall
    \/ OnStart_AddListener
    \/ OnStart_SetNodeInfo
    \/ OnStart_SetNodePrivKey
    \/ OnStart_SwStart
    \/ OnStart_DialSeeds
    \/ OnStart_startRPC
    \/ OnStop_SwStop
    \/ OnStop_Close
    \/ OnStop_Return
    \/ ChainGrow
    \/ \E p \in PinNames : Indexer_Apply(p)
    \/ \E p \in PinNames : Indexer_Advance(p)

WalletSpec == Init /\ [][WalletNext]_vars

(***************************************************************************)
(* filterAliases on every build request of up to MaxActions actions.       *)
(***************************************************************************)
AliasInit ==
    /\ storeHeight = 0
    /\ genesisAdds = 0
    /\ pinDisk = NoPins
    /\ config = NoConfig
    /\ mainPc = "down"
    /\ pinMem = NoPins
    /\ indexerRunning = FALSE
    /\ reactors = {}
    /\ apiServing = "no"
    /\ wh_h = Nil
    /\ wh_wg = 0
    /\ nodeState = "None"
    /\ startCalls = 0
    /\ onStartPc = 0
    /\ onStartLog = <<>>
    /\ onStartErr = "none"
    /\ swListeners = 0
    /\ nodeInfo = Nil
    /\ privKeySet = FALSE
    /\ swStarted = FALSE
    /\ dialResult = "none"
    /\ opened = {}
    /\ rpcListeners = <<>>
    /\ onStopPc = "idle"
    /\ reqPc = [r \in Reqs |-> "idle"]
    /\ reqSaw = [r \in Reqs |-> Nil]
    /\ reqHeld = [r \in Reqs |-> FALSE]
    /\ setPc = "idle"
    /\ panicked = FALSE
    /\ walletApplied = NoWallet
    /\ applyCount = [p \in PinNames |-> 0]
    /\ crashCount = [p \in PinNames |-> 0]
    /\ pinInit = NoPins
    /\ idxPc = [p \in PinNames |-> "idle"]
    /\ loadResult = "none"
    /\ closeIdx = 0
    /\ closeTried = {}
    /\ \E n \in 1..MaxActions : brInput \in [1..n -> ActionMaps]
    /\ brActions = brInput
    /\ brErr = NoErr
    /\ aliasPc = "call"
    /\ lookups = {}

AliasNext == filterAliases_Call

AliasSpec == AliasInit /\ [][AliasNext]_vars

\* the goroutines are scheduled: a stop that began runs to its end and an
\* indexing loop that can step does; nothing makes the process exit
WalletFairSpec ==
    /\ WalletSpec
    /\ WF_vars(OnStop_Close)
    /\ WF_vars(OnStop_Return)
    /\ \A p \in PinNames : WF_vars(Indexer_Apply(p)) /\ WF_vars(Indexer_Advance(p))

\* The gate: rpcInit on a fresh store with the wallet disabled, about to create
\* the waitHandler, and the requests of the API server.
GateInit ==
    /\ storeHeight = 1
    /\ genesisAdds = 1
    /\ pinDisk = NoPins
    /\ config = NoConfig
    /\ mainPc = "rpc_open"
    /\ pinMem = NoPins
    /\ indexerRunning = FALSE
    /\ reactors = {"BLOCKCHAIN"}
    /\ apiServing = "no"
    /\ wh_h = Nil
    /\ wh_wg = 0
    /\ nodeState = "None"
    /\ startCalls = 0
    /\ onStartPc = 0
    /\ onStartLog = <<>>
    /\ onStartErr = "none"
    /\ swListeners = 0
    /\ nodeInfo = Nil
    /\ privKeySet = FALSE
    /\ swStarted = FALSE
    /\ dialResult = "none"
    /\ opened = {}
    /\ rpcListeners = <<>>
    /\ onStopPc = "idle"
    /\ reqPc = [r \in Reqs |-> "idle"]
    /\ reqSaw = [r \in Reqs |-> Nil]
    /\ reqHeld = [r \in Reqs |-> FALSE]
    /\ setPc = "idle"
    /\ panicked = FALSE
    /\ walletApplied = NoWallet
    /\ applyCount = [p \in PinNames |-> 0]
    /\ crashCount = [p \in PinNames |-> 0]
    /\ pinInit = NoPins
    /\ idxPc = [p \in PinNames |-> "idle"]
    /\ loadResult = "none"
    /\ closeIdx = 0
    /\ closeTried = {}
    /\ brInput = <<>>
    /\ brActions = <<>>
    /\ brErr = NoErr
    /\ aliasPc = "returned"
    /\ lookups = {}

GateNext ==
    \/ rpcInit_Open
    \/ rpcInit_Set_h
    \/ rpcInit_Set_done
    \/ \E r \in Reqs : ServeHTTP_Arrive(r)
    \/ \E r \in Reqs : ServeHTTP_Wait(r)
    \/ \E r \in Reqs : ServeHTTP_Forward(r)

GateSpec == GateInit /\ [][GateNext]_vars

\* The gate goroutines are scheduled fairly.
GateFairSpec ==
    /\ GateSpec
    /\ WF_vars(rpcInit_Set_h)
    /\ WF_vars(rpcInit_Set_done)
    /\ \A r \in Reqs : WF_vars(ServeHTTP_Wait(r)) /\ WF_vars(ServeHTTP_Forward(r))

\* The gate with a second caller of Set.
GateMisuseNext ==
    \/ GateNext
    \/ SetAgain_h
    \/ SetAgain_done

GateMisuseSpec == GateInit /\ [][GateMisuseNext]_vars

(***************************************************************************)
(* Properties.                                                             *)
(***************************************************************************)

\* C1: no request is forwarded while waitHandler.h is unset: a request that has
\* passed wg.Wait() finds the handler stored, and every forwarded request was
\* forwarded to a handler, not to nil.
WaitHandlerSafety ==
    \A r \in Reqs :
        /\ reqPc[r] = "fwd" => wh_h # Nil
        /\ reqPc[r] = "done" => reqSaw[r] # Nil

\* a request that arrived before Set released the gate has been forwarded
WaitHandlerSafetyWitness ==
    \E r \in Reqs : reqHeld[r] /\ reqPc[r] = "done" /\ reqSaw[r] = CoreHandler

\* C2: a request that arrives before Set is held in wg.Wait(), and under fair
\* scheduling every request that entered ServeHTTP, before or after Set, is
\* eventually forwarded to the handler rpcInit installed.
WaitHandlerLiveness ==
    /\ [](\A r \in Reqs : reqHeld[r] /\ wh_wg # 0 => reqPc[r] = "wait")
    /\ \A r \in Reqs :
         (reqPc[r] = "wait") ~> (reqPc[r] = "done" /\ reqSaw[r] = CoreHandler)

\* a held request and a request that arrived after Set have both completed
WaitHandlerLivenessWitness ==
    \E r1, r2 \in Reqs :
        /\ reqHeld[r1] /\ reqPc[r1] = "done"
        /\ ~reqHeld[r2] /\ reqPc[r2] = "done" /\ reqSaw[r2] = CoreHandler

\* C3: once a handler is stored, no later call of Set changes it.
SetIsOneShot == [][wh_h # Nil => wh_h' = wh_h]_vars

FreshPinsBelowTip ==
    /\ [][mainPc = "genesis" /\ storeHeight = 0 /\ mainPc' = "load_pins" =>
            storeHeight' = 1]_vars
    /\ [][(mainPc = "load_pins" \/ mainPc = "create_pins") /\ mainPc' # "down" =>
            storeHeight' = storeHeight]_vars
    /\ [][mainPc = "create_pins" /\ mainPc' = "reactor" =>
            /\ storeHeight >= 1
            /\ \A p \in PinNames :
                 pinMem[p] = NoPin =>
                   /\ pinMem'[p] = (IF storeHeight - 1 > 0 THEN storeHeight - 1 ELSE 0)
                   /\ pinDisk'[p] = pinMem'[p]]_vars

\* the wallet was first enabled on a store above genesis: both pins are fresh,
\* one below the tip
FreshPinsBelowTipWitness ==
    /\ mainPc = "reactor" /\ indexerRunning
    /\ storeHeight >= 2
    /\ \A p \in PinNames : pinMem[p] = storeHeight - 1 /\ pinDisk[p] = storeHeight - 1

RpcAllOrNothing == onStartErr = "rpc" => opened = {}

StepRank(name) ==
    CASE name = "AddListener" -> 1
      [] name = "SetNodeInfo" -> 2
      [] name = "SetNodePrivKey" -> 3
      [] name = "SwStart" -> 4
      [] name = "DialSeeds" -> 5
      [] name = "startRPC" -> 6

Logged(name) == \E i \in 1..Len(onStartLog) : onStartLog[i] = name

\* C9: OnStart runs its steps in one order: the peer listener is registered, then
\* NodeInfo (carrying the listen address) and the private key are published,
\* then the Switch is started, then seeds are dialed, then startRPC runs; a step
\* begins only when the steps before it are done (the Switch stays started until
\* OnStop).
OnStartOrdered ==
    /\ \A i, j \in 1..Len(onStartLog) :
         i < j => StepRank(onStartLog[i]) < StepRank(onStartLog[j])
    /\ Logged("SetNodeInfo") => Logged("AddListener") /\ swListeners >= 1
    /\ nodeInfo # Nil => nodeInfo = "NodeInfo+ListenAddr"
    /\ Logged("SetNodePrivKey") => Logged("SetNodeInfo") /\ nodeInfo # Nil
    /\ Logged("SwStart") => Logged("SetNodePrivKey") /\ privKeySet /\ nodeInfo # Nil
    /\ Logged("DialSeeds") => Logged("SwStart") /\ (onStopPc = "idle" => swStarted)
    /\ Logged("startRPC") =>
         /\ Logged("SwStart") /\ (onStopPc = "idle" => swStarted)
         /\ config.seeds => Logged("DialSeeds") /\ dialResult = "ok"
    /\ onStartErr = "ok" =>
         /\ Logged("SwStart")
         /\ config.seeds => Logged("DialSeeds")
         /\ config.rpcAddrs > 0 => Logged("startRPC")

\* OnStart ran all six steps and returned nil
OnStartOrderedWitness ==
    nodeState = "Running" /\ Len(onStartLog) = 6 /\ rpcListeners # <<>>

\* C10: when the Switch fails to start, OnStart returns the error: no seed is
\* dialed, startRPC is not called, rpcListeners stays empty, no RPC listener is
\* open and the node is not Running; a Running node has a started Switch.
SwitchFailureAborts ==
    /\ onStartErr = "sw" =>
         /\ nodeState = "Created"
         /\ ~swStarted
         /\ ~Logged("DialSeeds") /\ dialResult = "none"
         /\ ~Logged("startRPC")
         /\ rpcListeners = <<>>
         /\ opened = {}
    /\ nodeState = "Running" => swStarted /\ onStartErr = "ok"

\* the Switch failed to start on a node configured with seeds and RPC addresses
SwitchFailureAbortsWitness ==
    onStartErr = "sw" /\ config.seeds /\ config.rpcAddrs > 0

(***************************************************************************)
(* C11: Node.OnStop stops the Switch before it closes any RPC listener,    *)
(* and then calls Close on every listener of n.rpcListeners: a Close error *)
(* is only logged, the remaining listeners are still closed and the stop   *)
(* completes.                                                              *)
(***************************************************************************)
OnStopClosesAll ==
    /\ closeTried # {} => ~swStarted
    /\ onStopPc = "close" => ~swStarted
    /\ nodeState = "Stopped" => closeTried = Range(rpcListeners)

\* a stop completed although Close failed on the first of two listeners: the
\* second one was closed all the same
OnStopClosesAllWitness ==
    /\ nodeState = "Stopped"
    /\ Len(rpcListeners) >= 2
    /\ rpcListeners[1] \in opened
    /\ rpcListeners[2] \notin opened
    /\ rpcListeners[2] \in closeTried

StartupOrdered ==
    /\ swStarted => storeHeight >= 1 /\ mainPc = "node"
    /\ indexerRunning =>
         /\ loadResult = "ok"
         /\ \A p \in PinNames : pinMem[p] # NoPin /\ pinDisk[p] = pinMem[p]

\* the Switch and the indexer both run, on the store the genesis bootstrap left
StartupOrderedWitness ==
    /\ swStarted
    /\ indexerRunning
    /\ storeHeight = 1
    /\ genesisAdds = 1

(***************************************************************************)
(* C18: when PinStore.LoadAll fails in NewNode (wallet enabled), wallet    *)
(* indexing is never enabled and the node never becomes Running: NewNode   *)
(* yields no node, and for as long as that process lives no pin is         *)
(* created, no indexer loop runs, no reactor is registered and the gated   *)
(* RPC server is not started.                                              *)
(***************************************************************************)
LoadAllFailureIsFatal ==
    /\ [](loadResult = "failed" =>
            /\ config.wallet
            /\ mainPc = "nil"
            /\ nodeState = "None"
            /\ ~indexerRunning
            /\ reactors = {}
            /\ apiServing = "no"
            /\ wh_wg = 0
            /\ ~swStarted
            /\ pinMem = NoPins)
    /\ [][loadResult = "failed" => pinDisk' = pinDisk /\ pinMem' = NoPins]_vars

\* LoadAll failed on a store that holds no pin yet
LoadAllFailureIsFatalWitness ==
    /\ loadResult = "failed"
    /\ mainPc = "nil"
    /\ storeHeight >= 1
    /\ pinDisk = NoPins

(***************************************************************************)
(* C20: a failed start leaves nothing running.  Whenever Node.OnStart has  *)
(* returned an error (Switch start, seed dial or RPC listener failure) the *)
(* Switch is not started and every RPC listener that is open is recorded   *)
(* in n.rpcListeners, where OnStop will close it.                          *)
(***************************************************************************)
FailedStartLeavesNothingUp ==
    (nodeState = "Created" /\ onStartErr \in {"sw", "seeds", "rpc"}) =>
        /\ ~swStarted
        /\ opened \subseteq Range(rpcListeners)

(***************************************************************************)
(* C15: the pin invariant under the indexing loop.  The height of a pin    *)
(* never decreases and changes only from h to h+1, and only when block h+1 *)
(* has been applied to wallet state; so every block above the height the   *)
(* pin was created at and at or below its current height has been applied, *)
(* none is skipped, and an advance of one pin leaves the other pin alone.  *)
(***************************************************************************)
PinInvariant ==
    /\ [](\A p \in PinNames :
            /\ pinDisk[p] # NoPin => pinInit[p] # NoPin /\ pinInit[p] <= pinDisk[p]
            /\ pinMem[p] # NoPin => pinMem[p] = pinDisk[p]
            /\ \A h \in 1..MaxHeight :
                 (pinInit[p] # NoPin /\ pinInit[p] < h /\ h <= pinDisk[p]) =>
                     walletApplied[p][h] >= 1)
    /\ [][\A p \in PinNames :
            (pinDisk[p] # NoPin /\ pinDisk'[p] # pinDisk[p]) =>
                /\ pinDisk'[p] = pinDisk[p] + 1
                /\ walletApplied[p][pinDisk[p] + 1] >= 1
                /\ \A q \in PinNames \ {p} : pinDisk'[q] = pinDisk[q]]_vars

\* one pin is two blocks above the height it was created at, the other has not moved
PinInvariantWitness ==
    /\ pinInit["account"] # NoPin
    /\ pinDisk["account"] = pinInit["account"] + 2
    /\ pinInit["delete_spents"] # NoPin
    /\ pinDisk["delete_spents"] = pinInit["delete_spents"]
    /\ pinInit["delete_spents"] = pinInit["account"]

(***************************************************************************)
(* C16: crash recovery of the wallet indexer.  When the process dies after *)
(* block N was applied and before the pin was advanced and persisted, the  *)
(* restarted loop (LoadAll, CreatePin as a no-op) applies block N exactly  *)
(* once more, and wallet state and pin height are those of a run without   *)
(* a crash: every block in (initial height, pin] applied with its effect   *)
(* counted once, no block above pin+1 touched.                             *)
(***************************************************************************)
CrashRecovery ==
    \A p \in PinNames :
        LET advanced == IF pinInit[p] = NoPin THEN 0 ELSE pinDisk[p] - pinInit[p]
            pending == IF idxPc[p] = "applied" THEN 1 ELSE 0
        IN /\ applyCount[p] = advanced + crashCount[p] + pending
           /\ \A h \in 1..MaxHeight :
                walletApplied[p][h] \in
                    IF pinInit[p] # NoPin /\ pinInit[p] < h /\ h <= pinDisk[p] THEN {1}
                    ELSE IF pinInit[p] # NoPin /\ h = pinDisk[p] + 1
                         THEN \* the block being applied, or one a crash left applied
                              IF pending = 1 THEN {1}
                              ELSE IF crashCount[p] > 0 THEN {0, 1} ELSE {0}
                         ELSE {0}

\* the loop crashed once after an apply; after the restart the block was applied
\* again and the pin advanced over it and over the next block
CrashRecoveryWitness ==
    /\ crashCount["account"] = 1
    /\ idxPc["account"] = "idle"
    /\ pinDisk["account"] = pinInit["account"] + 2
    /\ applyCount["account"] = 3
    /\ walletApplied["account"][pinDisk["account"]] = 1

(***************************************************************************)
(* C14: node shutdown makes every indexer loop and accept loop exit: once  *)
(* Stop has completed, the wallet indexer started in NewNode and the gated *)
(* API server started in rpcInit eventually terminate.                     *)
(***************************************************************************)
StopEndsLoops ==
    (nodeState = "Stopped") ~> (~indexerRunning /\ apiServing # "serving")

(***************************************************************************)
(* C17: a failure of filterAliases is clean.  When the resolution of an    *)
(* alias fails the error names that alias and the index of its action,     *)
(* and no action of the build request has been changed: no asset_id or     *)
(* account_id was filled in, on earlier actions either.                    *)
(***************************************************************************)
FilterFailureIsClean ==
    (aliasPc = "returned" /\ brErr # NoErr) =>
        /\ \E i \in 1..Len(brInput) :
             \/ brErr = <<"asset", brInput[i].asset_alias, i - 1>>
             \/ brErr = <<"account", brInput[i].account_alias, i - 1>>
        /\ brActions = brInput

(***************************************************************************)
(* C19: filterAliases resolves an alias only when the identifier is        *)
(* absent.  For an action that carries a non-empty asset_id (account_id)   *)
(* no alias lookup is made and its asset_id (account_id) is unchanged,     *)
(* also when an asset_alias (account_alias) is present.                    *)
(***************************************************************************)
NoLookupWhenIdPresent ==
    aliasPc = "returned" =>
        \A i \in 1..Len(brInput) :
            /\ brInput[i].asset_id # "" =>
                 /\ brActions[i].asset_id = brInput[i].asset_id
                 /\ <<"asset", i - 1, brInput[i].asset_alias>> \notin lookups
            /\ brInput[i].account_id # "" =>
                 /\ brActions[i].account_id = brInput[i].account_id
                 /\ <<"account", i - 1, brInput[i].account_alias>> \notin lookups

============================================================================
